---- MODULE Spec2Model ----
(***************************************************************************)
(* Model of the Go project initializer (main.go): one run of main(), from  *)
(* the flag definitions to process exit, against a small file system.      *)
(*                                                                         *)
(* A string is a sequence of tokens: the path separator Sep or a path      *)
(* component ("go", "src", "..", ".").  "" is <<>>, "/go" is               *)
(* <<Sep,"go">>, "github.com" is <<"github.com">>.                         *)
(***************************************************************************)
EXTENDS Naturals, Sequences, FiniteSets, TLC

Sep == "/"
Str(c) == <<c>>
EmptyString == <<>>

(* ---------------- bounds of the model ---------------- *)
\* largest number of positional arguments on a command line
MaxArgs == 2

(* ---------------- path/filepath (Unix) ---------------- *)
Comps(s) == SelectSeq(s, LAMBDA t : t # Sep)
Rooted(s) == Len(s) > 0 /\ s[1] = Sep

\* lexical processing of the components, as filepath.Clean does it:
\* "." is dropped, ".." removes the component before it, stays when there is
\* none in a relative path, and is dropped at the root.
RECURSIVE CleanStack(_, _, _)
CleanStack(comps, rooted, stack) ==
    IF comps = <<>> THEN stack
    ELSE LET c == Head(comps)
             n == Len(stack)
             next == IF c = "." THEN stack
                     ELSE IF c = ".."
                          THEN IF n > 0 /\ stack[n] # ".."
                               THEN SubSeq(stack, 1, n - 1)
                               ELSE IF rooted THEN stack
                               ELSE Append(stack, "..")
                     ELSE Append(stack, c)
         IN CleanStack(Tail(comps), rooted, next)

RECURSIVE WithSeps(_)
WithSeps(comps) ==
    IF Len(comps) <= 1 THEN comps
    ELSE <<Head(comps), Sep>> \o WithSeps(Tail(comps))

Clean(s) ==
    IF s = EmptyString THEN Str(".")
    ELSE LET st == CleanStack(Comps(s), Rooted(s), <<>>)
         IN IF Rooted(s) THEN <<Sep>> \o WithSeps(st)
            ELSE IF st = <<>> THEN Str(".")
            ELSE WithSeps(st)

\* strings.Join(elems, "/")
RECURSIVE StringsJoin(_)
StringsJoin(elems) ==
    IF elems = <<>> THEN EmptyString
    ELSE IF Len(elems) = 1 THEN elems[1]
    ELSE elems[1] \o <<Sep>> \o StringsJoin(Tail(elems))

\* filepath.Join: the elements from the first non-empty one on, joined with
\* the separator and cleaned; "" when every element is empty.
RECURSIVE Join(_)
Join(elems) ==
    IF elems = <<>> THEN EmptyString
    ELSE IF Head(elems) # EmptyString THEN Clean(StringsJoin(elems))
    ELSE Join(Tail(elems))

(* ---------------- the operating system's view of a path ---------------- *)
\* A directory is named by the sequence of components below the root.
\* The kernel resolves a relative path against the working directory in force
\* at the time of the call.
Resolve(wd, p) == CleanStack(Comps(p), TRUE, IF Rooted(p) THEN <<>> ELSE wd)
Ancestors(d) == { SubSeq(d, 1, k) : k \in 0..Len(d) }

(* ---------------- inputs of a run ---------------- *)
\* path components used on command lines, in the environment and in git config
Flag(v) == [set |-> TRUE, val |-> v]
Absent == [set |-> FALSE, val |-> EmptyString]

ProviderFlags == { Absent, Flag(Str("gitlab.com")), Flag(EmptyString), Flag(Str("..")) }
GopathFlags == { Absent, Flag(EmptyString), Flag(<<Sep, "go">>), Flag(Str("work")) }
UsernameFlags == { Absent, Flag(Str("bob")), Flag(Str("..")) }
EnvGopaths == { EmptyString, <<Sep, "go">>, Str(".") }
ProjectNames == { Str("demo"), EmptyString, Str("..") }
\* what follows the flags on the command line: up to MaxArgs positional arguments
RECURSIVE SeqsUpTo(_, _)
SeqsUpTo(S, n) ==
    IF n = 0 THEN { <<>> }
    ELSE LET shorter == SeqsUpTo(S, n - 1)
         IN shorter \cup { Append(q, x) : q \in { r \in shorter : Len(r) = n - 1 }, x \in S }
ArgLists == SeqsUpTo(ProjectNames, MaxArgs)
\* a token of the flag region the flag set rejects: an undefined flag, or
\* -help, which this program does not define
ExtraFlags == { "none", "undefined", "help" }
\* the global git configuration: unreadable, without user.name, or with one
GitConfigs == { [loads |-> FALSE, name |-> EmptyString],
                [loads |-> TRUE, name |-> EmptyString],
                [loads |-> TRUE, name |-> Str("alice")] }
\* working directory of the process at start
StartDir == <<"home", "dev">>
\* the captured combined output of the subprocess
Outputs == { Str("go: creating new go.mod"), Str("go: cannot determine module path") }

VARIABLES
    cmd,          \* os.Args after the program name
    envGOPATH,    \* os.Getenv("GOPATH")
    gitcfg,       \* the global git configuration
    provider, gopath, username, help,   \* the flag variables
    args, projectName, projectPath, output,
    cwd, dirs, repos, files,            \* the file system and working directory
    subprocs,     \* subprocesses started: the directory each ran in
    cfgRead,      \* whether config.LoadConfig was called
    printed,      \* what was written to stdout and stderr, in order
    steps,        \* the side-effecting calls made, in order, with their outcome
    pc, exitCode  \* position in main; exit status, <<>> while running

inputs == <<cmd, envGOPATH, gitcfg>>
locals == <<provider, gopath, username, help, args, projectName, projectPath, output>>
world == <<cwd, dirs, repos, files, subprocs, cfgRead>>
vars == <<inputs, locals, world, printed, steps, pc, exitCode>>

(* ---------------- helpers shared by the steps ---------------- *)
Line(stream, fmt, a) == [stream |-> stream, fmt |-> fmt, args |-> a]
\* flag.Usage as set at lines 22-31: everything goes to standard error
Usage == Line("stderr", "usage", <<>>)
Call(op, arg, ok) == [op |-> op, arg |-> arg, ok |-> ok]

\* (variant: a failure exits with the status of success)
FailureStatusZero == 1 - 1

\* status passed to os.Exit on a validation or step failure
FailureStatus == 1
Exit(code) == pc' = "exited" /\ exitCode' = <<code>>

\* (variant: the repository is initialized before the directory change)
StatementsInitFirst ==
    << "parse", "help", "args", "gopath", "username", "path",
       "mkdir", "gitinit", "chdir", "modinit", "write", "report" >>

\* (variant: the help flag is looked at after the argument count)
StatementsArgsFirst ==
    << "parse", "args", "help", "gopath", "username", "path",
       "mkdir", "chdir", "gitinit", "modinit", "write", "report" >>

\* (variant: the username is resolved before the base-path is validated)
StatementsUsernameFirst ==
    << "parse", "help", "args", "username", "gopath", "path",
       "mkdir", "chdir", "gitinit", "modinit", "write", "report" >>

\* the statements of main in program order (lines 33-116); control falls from
\* one to the next unless the statement exits
Statements ==
    << "parse", "help", "args", "gopath", "username", "path",
       "mkdir", "chdir", "gitinit", "modinit", "write", "report" >>
After(p) == Statements[(CHOOSE i \in 1..Len(Statements) : Statements[i] = p) + 1]

\* the default of each flag, as defined at lines 16-19
DefaultProvider == Str("github.com")
DefaultGopath == envGOPATH
DefaultUsername == EmptyString

FlagValue(f, default) == IF f.set THEN f.val ELSE default

Init ==
    /\ cmd \in [ provider : ProviderFlags, gopath : GopathFlags, username : UsernameFlags,
                 h : BOOLEAN, args : ArgLists, extra : ExtraFlags ]
    /\ envGOPATH \in EnvGopaths
    /\ gitcfg \in GitConfigs
    /\ provider = DefaultProvider
    /\ gopath = DefaultGopath
    /\ username = DefaultUsername
    /\ help = FALSE
    /\ args = <<>>
    /\ projectName = EmptyString
    /\ projectPath = EmptyString
    /\ output = EmptyString
    /\ cwd = StartDir
    /\ dirs = Ancestors(StartDir)
    /\ repos = {}
    /\ files = {}
    /\ subprocs = <<>>
    /\ cfgRead = FALSE
    /\ printed = <<>>
    /\ steps = <<>>
    /\ pc = "parse"
    /\ exitCode = <<>>

(* ---------------- main, statement by statement ---------------- *)
\* flag.Parse(): the command-line flag set exits on error, with status 0
\* after printing usage for an undefined -help and with status 2 otherwise.
Parse ==
    /\ pc = "parse"
    /\ UNCHANGED <<inputs, world, steps, args, projectName, projectPath, output>>
    /\ IF cmd.extra = "undefined"
       THEN /\ printed' = printed \o <<Line("stderr", "flag provided but not defined", <<>>), Usage>>
            /\ Exit(2)
            /\ UNCHANGED <<provider, gopath, username, help>>
       ELSE IF cmd.extra = "help"
       THEN /\ printed' = Append(printed, Usage)
            /\ Exit(0)
            /\ UNCHANGED <<provider, gopath, username, help>>
       ELSE /\ provider' = FlagValue(cmd.provider, provider)
            /\ gopath' = FlagValue(cmd.gopath, gopath)
            /\ username' = FlagValue(cmd.username, username)
            /\ help' = cmd.h
            /\ pc' = After(pc)
            /\ UNCHANGED <<printed, exitCode>>

\* if *help { flag.Usage(); os.Exit(0) }
CheckHelp ==
    /\ pc = "help"
    /\ UNCHANGED <<inputs, locals, world, steps>>
    /\ IF help
       THEN /\ printed' = Append(printed, Usage)
            /\ Exit(0)
       ELSE /\ pc' = After(pc)
            /\ UNCHANGED <<printed, exitCode>>

\* (variant: only a missing argument is refused)
TooFewArgs(a) == Len(a) < 1

\* len(args) != 1
WrongArgCount(a) == Len(a) # 1

\* args := flag.Args(); exactly one is required
CheckArgs ==
    /\ pc = "args"
    /\ UNCHANGED <<inputs, world, steps, provider, gopath, username, help,
                   projectPath, output>>
    /\ args' = cmd.args
    /\ IF WrongArgCount(args')
       THEN /\ printed' = printed \o
                   <<Line("stdout", "Error: Project name is required as an argument.", <<>>), Usage>>
            /\ Exit(FailureStatus)
            /\ UNCHANGED projectName
       ELSE /\ projectName' = args'[1]
            /\ pc' = After(pc)
            /\ UNCHANGED <<printed, exitCode>>

\* (variant: the check is missing)
GopathNeverMissing(g) == g # g

\* *gopath == ""
GopathMissing(g) == g = EmptyString

\* if *gopath == "" { ...; os.Exit(1) }
ValidateGopath ==
    /\ pc = "gopath"
    /\ UNCHANGED <<inputs, locals, world, steps>>
    /\ IF GopathMissing(gopath)
       THEN /\ printed' = Append(printed, Line("stdout", "Error: GOPATH is not set.", <<>>))
            /\ Exit(FailureStatus)
       ELSE /\ pc' = After(pc)
            /\ UNCHANGED <<printed, exitCode>>

\* (variant: an empty user.name is returned as a name)
getGitUsernameUnchecked ==
    IF ~gitcfg.loads
    THEN [name |-> EmptyString, err |-> Str("failed to load git config")]
    ELSE [name |-> gitcfg.name, err |-> EmptyString]

\* getGitUsername(): the name of the global configuration, or an error
getGitUsername ==
    IF ~gitcfg.loads
    THEN [name |-> EmptyString, err |-> Str("failed to load git config")]
    ELSE IF gitcfg.name = EmptyString
    THEN [name |-> EmptyString, err |-> Str("git user.name is not set in global config")]
    ELSE [name |-> gitcfg.name, err |-> EmptyString]

\* if *username == "" { *username, err = getGitUsername(); ... }
ResolveUsername ==
    /\ pc = "username"
    /\ UNCHANGED <<inputs, steps, provider, gopath, help, args, projectName, projectPath,
                   output, cwd, dirs, repos, files, subprocs>>
    /\ IF username = EmptyString
       THEN LET r == getGitUsername
            IN /\ cfgRead' = TRUE
               /\ username' = r.name
               /\ IF r.err # EmptyString
                  THEN /\ printed' = Append(printed,
                                 Line("stdout", "Error getting git username: %v", <<r.err>>))
                       /\ Exit(FailureStatus)
                  ELSE /\ pc' = After(pc)
                       /\ UNCHANGED <<printed, exitCode>>
       ELSE /\ pc' = After(pc)
            /\ UNCHANGED <<username, cfgRead, printed, exitCode>>

\* (variant: username and provider change places)
ProjectPathSwapped(base, prov, user, name) == Join(<<base, Str("src"), user, prov, name>>)

\* projectPath := filepath.Join(*gopath, "src", *provider, *username, projectName)
ProjectPath(base, prov, user, name) == Join(<<base, Str("src"), prov, user, name>>)

BuildPath ==
    /\ pc = "path"
    /\ projectPath' = ProjectPath(gopath, provider, username, projectName)
    /\ pc' = After(pc)
    /\ UNCHANGED <<inputs, world, steps, printed, exitCode, provider, gopath, username,
                   help, args, projectName, output>>

\* err := os.MkdirAll(projectPath, 0755): the directory and every missing
\* parent; a failing call may have made some of the parents already.
MkdirAll ==
    /\ pc = "mkdir"
    /\ LET d == Resolve(cwd, projectPath)
       IN \E ok \in BOOLEAN :
            /\ steps' = Append(steps, Call("MkdirAll", projectPath, ok))
            /\ IF ok
               THEN /\ dirs' = dirs \cup Ancestors(d)
                    /\ pc' = After(pc)
                    /\ UNCHANGED <<printed, exitCode>>
               ELSE /\ \E k \in 0..Len(d) :
                         /\ k < Len(d) \/ d \in dirs
                         /\ dirs' = dirs \cup Ancestors(SubSeq(d, 1, k))
                    /\ printed' = Append(printed,
                           Line("stdout", "Error creating project directory: %v", <<Str("mkdir failed")>>))
                    /\ Exit(FailureStatus)
    /\ UNCHANGED <<inputs, locals, cwd, repos, files, subprocs, cfgRead>>

\* err = os.Chdir(projectPath)
Chdir ==
    /\ pc = "chdir"
    /\ \E ok \in BOOLEAN :
         /\ steps' = Append(steps, Call("Chdir", projectPath, ok))
         /\ IF ok
            THEN /\ Resolve(cwd, projectPath) \in dirs
                 /\ cwd' = Resolve(cwd, projectPath)
                 /\ pc' = After(pc)
                 /\ UNCHANGED <<printed, exitCode>>
            ELSE /\ printed' = Append(printed,
                        Line("stdout", "Error changing to project directory: %v", <<Str("chdir failed")>>))
                 /\ Exit(FailureStatus)
                 /\ UNCHANGED cwd
    /\ UNCHANGED <<inputs, locals, dirs, repos, files, subprocs, cfgRead>>

\* the directory git.PlainInit(path, false) puts the repository in: the
\* library opens the path as given, so the kernel resolves a relative one
\* against the working directory of the moment; missing directories are made.
InitDir(wd, path) == Resolve(wd, path)

\* _, err = git.PlainInit(projectPath, false)
PlainInit ==
    /\ pc = "gitinit"
    /\ \E ok \in BOOLEAN :
         /\ steps' = Append(steps, Call("PlainInit", projectPath, ok))
         /\ IF ok
            THEN /\ dirs' = dirs \cup Ancestors(InitDir(cwd, projectPath))
                 /\ repos' = repos \cup { InitDir(cwd, projectPath) }
                 /\ pc' = After(pc)
                 /\ UNCHANGED <<printed, exitCode>>
            ELSE /\ printed' = Append(printed,
                        Line("stdout", "Error initializing Git repository: %v", <<Str("init failed")>>))
                 /\ Exit(FailureStatus)
                 /\ UNCHANGED <<dirs, repos>>
    /\ UNCHANGED <<inputs, locals, cwd, files, subprocs, cfgRead>>

File(dir, name, content) == [dir |-> dir, name |-> name, content |-> content]
\* writing a file replaces the one of that name in that directory
WithFile(fs, f) == { g \in fs : ~(g.dir = f.dir /\ g.name = f.name) } \cup { f }

\* (variant: the captured output is dropped)
ModInitErrorOnly(err, out) == Line("stdout", "Error initializing Go module: %v\n%s", <<err>>)

\* what is printed when the subprocess fails: the error, then its output
ModInitError(err, out) == Line("stdout", "Error initializing Go module: %v\n%s", <<err, out>>)

\* cmd := exec.Command("go", "mod", "init"); output, err := cmd.CombinedOutput()
\* The subprocess runs in the working directory of the process.
GoModInit ==
    /\ pc = "modinit"
    /\ \E ok \in BOOLEAN, out \in Outputs :
         /\ steps' = Append(steps, Call("go mod init", EmptyString, ok))
         /\ subprocs' = Append(subprocs, cwd)
         /\ output' = out
         /\ IF ok
            THEN /\ files' = WithFile(files, File(cwd, "go.mod", Str("module")))
                 /\ pc' = After(pc)
                 /\ UNCHANGED <<printed, exitCode>>
            ELSE /\ printed' = Append(printed, ModInitError(Str("exit status 1"), out))
                 /\ Exit(FailureStatus)
                 /\ UNCHANGED files
    /\ UNCHANGED <<inputs, provider, gopath, username, help, args, projectName, projectPath,
                   cwd, dirs, repos, cfgRead>>

\* the template of lines 100-107 with the project name interpolated
MainContent(name) == <<"package main ... Hello from ">> \o name \o <<"!">>

\* err = os.WriteFile("main.go", mainContent, 0644): relative to the
\* working directory
WriteMain ==
    /\ pc = "write"
    /\ \E ok \in BOOLEAN :
         /\ steps' = Append(steps, Call("WriteFile", Str("main.go"), ok))
         /\ IF ok
            THEN /\ files' = WithFile(files, File(cwd, "main.go", MainContent(projectName)))
                 /\ pc' = After(pc)
                 /\ UNCHANGED <<printed, exitCode>>
            ELSE /\ printed' = Append(printed,
                        Line("stdout", "Error creating main.go file: %v", <<Str("write failed")>>))
                 /\ Exit(FailureStatus)
                 /\ UNCHANGED files
    /\ UNCHANGED <<inputs, locals, cwd, dirs, repos, subprocs, cfgRead>>

\* the two closing lines; main returns, so the process exits with status 0
Report ==
    /\ pc = "report"
    /\ printed' = printed \o
           << Line("stdout", "Successfully created and set up Go project at %s", <<projectPath>>),
              Line("stdout", "Created: Git repository, Go module, and main.go file", <<>>) >>
    /\ steps' = Append(steps, Call("Report", projectPath, TRUE))
    /\ Exit(0)
    /\ UNCHANGED <<inputs, locals, world>>

Next ==
    \/ Parse
    \/ CheckHelp
    \/ CheckArgs
    \/ ValidateGopath
    \/ ResolveUsername
    \/ BuildPath
    \/ MkdirAll
    \/ Chdir
    \/ PlainInit
    \/ GoModInit
    \/ WriteMain
    \/ Report

Spec == Init /\ [][Next]_vars

(* ======================= properties ======================= *)
Exited == pc = "exited"
\* flag.Parse returned: the run is in main's own statements
ParsedOk == pc # "parse" /\ cmd.extra = "none"
Ops == [ i \in 1..Len(steps) |-> steps[i].op ]
StepOrder == << "MkdirAll", "Chdir", "PlainInit", "go mod init", "WriteFile" >>
AllStepsSucceeded ==
    /\ Len(steps) >= Len(StepOrder)
    /\ SubSeq(Ops, 1, Len(StepOrder)) = StepOrder
    /\ \A i \in 1..Len(StepOrder) : steps[i].ok
SomeStepFailed == \E i \in 1..Len(steps) : ~steps[i].ok
HelpRequest == help \/ cmd.extra = "help"
Untouched ==
    /\ cwd = StartDir
    /\ dirs = Ancestors(StartDir)
    /\ repos = {}
    /\ files = {}
    /\ subprocs = <<>>
    /\ steps = <<>>
HasLine(fmt) == \E i \in 1..Len(printed) : printed[i].fmt = fmt
LastLine == IF printed = <<>> THEN Line("", "", <<>>) ELSE printed[Len(printed)]

\* C1: a terminated run has exit status 0 exactly when it was a help request
\* or all five steps succeeded, and status 1 otherwise; the only other status,
\* 2, comes from the flag library rejecting the command line inside
\* flag.Parse, never from a statement of main.
C1_ExitCodes ==
    Exited =>
        IF cmd.extra = "undefined"
        THEN exitCode = <<2>> /\ Untouched
        ELSE /\ exitCode \in { <<0>>, <<1>> }
             /\ exitCode = <<0>> <=> (HelpRequest \/ AllStepsSucceeded)
             /\ exitCode = <<1>> <=>
                   \/ (~help /\ cmd.extra = "none" /\ WrongArgCount(cmd.args))
                   \/ (~help /\ cmd.extra = "none" /\ GopathMissing(gopath))
                   \/ (~help /\ cmd.extra = "none" /\ username = EmptyString)
                   \/ SomeStepFailed
\* a run whose fifth step, the file write, fails
C1_Witness ==
    /\ Exited
    /\ exitCode = <<1>>
    /\ Len(steps) = 5
    /\ ~steps[5].ok

\* C2: the calls made are a prefix of MkdirAll, Chdir, PlainInit, go mod
\* init, WriteFile, success report; every call but the last one made has
\* succeeded; a failed call ends the run; the success lines are printed only
\* after all five succeeded.
C2_FixedOrder ==
    /\ Len(steps) <= Len(StepOrder) + 1
    /\ \A i \in 1..Len(steps) :
         /\ steps[i].op = (StepOrder \o <<"Report">>)[i]
         /\ i < Len(steps) => steps[i].ok
    /\ SomeStepFailed => Exited /\ exitCode = <<1>>
    /\ HasLine("Successfully created and set up Go project at %s") => AllStepsSucceeded
    /\ Cardinality(repos) = Cardinality({ i \in 1..Len(steps) : steps[i].op = "PlainInit" /\ steps[i].ok })
    /\ Len(subprocs) = Cardinality({ i \in 1..Len(steps) : steps[i].op = "go mod init" })
C2_Witness ==
    /\ Exited
    /\ Len(steps) = 3
    /\ steps[3].op = "PlainInit"
    /\ ~steps[3].ok

FileNames(fs) == { <<f.dir, f.name>> : f \in fs }
Last(q) == q[Len(q)]
ModInitFailed == steps # <<>> /\ Last(steps).op = "go mod init" /\ ~Last(steps).ok
\* the directory os.MkdirAll made: the path resolved from the start directory
ProjectRoot == Resolve(StartDir, projectPath)

\* C3 (state part): when go mod init has failed the run has ended with status
\* 1, the last line printed carries the error and the captured output, no
\* main.go was written, and the project directory and the repository made by
\* the earlier steps are still there.
C3_ModInitFailure ==
    ModInitFailed =>
        /\ Exited
        /\ exitCode = <<1>>
        /\ LastLine.fmt = "Error initializing Go module: %v\n%s"
        /\ LastLine.args = <<Str("exit status 1"), output>>
        /\ output \in Outputs
        /\ \A f \in files : f.name # "main.go"
        /\ \A i \in 1..Len(steps) : steps[i].op # "WriteFile"
        /\ ProjectRoot \in dirs
        /\ cwd = ProjectRoot
        /\ InitDir(cwd, projectPath) \in repos
        /\ InitDir(cwd, projectPath) \in dirs
\* C3 (step part): no step of a run removes a directory, a repository or a
\* file that exists.
C3_NothingRemoved ==
    /\ dirs \subseteq dirs'
    /\ repos \subseteq repos'
    /\ FileNames(files) \subseteq FileNames(files')
\* C3: in every run, a failed go mod init ends the run with status 1, the
\* error and the captured output printed, main.go unwritten and the project
\* directory and repository of the earlier steps in place; and no step ever
\* removes a directory, a repository or a file.
C3_NoRollback == [](C3_ModInitFailure) /\ [][C3_NothingRemoved]_vars
C3_Witness ==
    /\ ModInitFailed
    /\ Exited
    /\ output = Str("go: cannot determine module path")

\* C4 as stated: every run with an empty base-path exits with status 1 and
\* has no effect, whatever the other flags.
C4_EmptyGopathExitsOne ==
    (Exited /\ ParsedOk /\ gopath = EmptyString) => (exitCode = <<1>> /\ Untouched)
\* C4 amended: a run with an empty base-path never has an effect and never
\* reads the git configuration; it exits with status 1 unless -h was given,
\* in which case it exits with status 0.
C4_EmptyGopath ==
    (ParsedOk /\ gopath = EmptyString) =>
        /\ Untouched
        /\ ~cfgRead
        /\ pc \in { "help", "args", "gopath", "exited" }
        /\ Exited => exitCode = (IF help THEN <<0>> ELSE <<1>>)
C4_Witness ==
    /\ Exited
    /\ ParsedOk
    /\ gopath = EmptyString
    /\ ~help
    /\ Len(cmd.args) = 1
    /\ exitCode = <<1>>

\* C5 as stated: every run whose number of positional arguments is not one
\* prints usage and exits with status 1, with no effect.
C5_WrongArgCountExitsOne ==
    (Exited /\ ParsedOk /\ Len(cmd.args) # 1) =>
        (exitCode = <<1>> /\ HasLine("usage") /\ Untouched)
\* C5 amended: a run whose number of positional arguments is not one prints
\* usage and has no effect; it exits with status 1 unless -h was given, in
\* which case it exits with status 0.
C5_WrongArgCount ==
    (ParsedOk /\ Len(cmd.args) # 1) =>
        /\ Untouched
        /\ ~cfgRead
        /\ pc \in { "help", "args", "exited" }
        /\ Exited => /\ LastLine = Usage
                     /\ exitCode = (IF help THEN <<0>> ELSE <<1>>)
C5_Witness ==
    /\ Exited
    /\ ParsedOk
    /\ Len(cmd.args) = 2
    /\ ~help
    /\ exitCode = <<1>>

\* C6: a run with -h prints usage and exits with status 0 without reading
\* the git configuration and without any file system or subprocess effect,
\* whatever the other flags, the arguments and the configuration.
C6_Help ==
    (ParsedOk /\ help) =>
        /\ Untouched
        /\ ~cfgRead
        /\ pc \in { "help", "exited" }
        /\ Exited => (exitCode = <<0>> /\ printed = <<Usage>>)
C6_Witness ==
    /\ Exited
    /\ help
    /\ Len(cmd.args) = 0
    /\ gopath = EmptyString
    /\ ~gitcfg.loads
    /\ exitCode = <<0>>

\* a path as the sequence of its segments, each a string
Segments(path) == [ i \in 1..Len(Comps(path)) |-> Str(Comps(path)[i]) ]
\* a string that is one ordinary path segment: not empty, not "." or ".."
Ordinary(str) == Len(str) = 1 /\ str[1] \notin { Sep, ".", ".." }
PathBuilt == pc \notin { "parse", "help", "args", "gopath", "username", "path" }
                /\ (Exited => steps # <<>>)
PathCalls == { "MkdirAll", "Chdir", "PlainInit", "Report" }
SamePathEverywhere ==
    /\ \A i \in 1..Len(steps) : steps[i].op \in PathCalls => steps[i].arg = projectPath
    /\ \A i \in 1..Len(printed) :
         printed[i].fmt = "Successfully created and set up Go project at %s"
            => printed[i].args = <<projectPath>>

\* C7 as stated: in every run that builds the path, its segments are exactly
\* those of the base-path followed by "src", provider, username and project
\* name.
C7_FiveSegmentsAlways ==
    PathBuilt =>
        Segments(projectPath) = Segments(gopath) \o <<Str("src"), provider, username, projectName>>
\* C7 amended: when no segment of the base-path is "." or ".." and provider,
\* username and project name are each one ordinary segment, the path is the
\* base-path followed by "src", provider, username, project name, rooted
\* exactly when the base-path is; and in every run the one path value is the
\* argument of MkdirAll, Chdir and PlainInit and the path of the success line.
C7_ProjectPath ==
    PathBuilt =>
        /\ SamePathEverywhere
        /\ ( /\ \A i \in 1..Len(Comps(gopath)) : Comps(gopath)[i] \notin { ".", ".." }
             /\ Ordinary(provider) /\ Ordinary(username) /\ Ordinary(projectName) )
           => /\ Segments(projectPath) =
                    Segments(gopath) \o <<Str("src"), provider, username, projectName>>
              /\ Rooted(projectPath) = Rooted(gopath)
              /\ projectPath = WithSeps(Comps(projectPath)) \/
                 projectPath = <<Sep>> \o WithSeps(Comps(projectPath))
C7_Witness ==
    /\ Exited
    /\ AllStepsSucceeded
    /\ gopath = <<Sep, "go">>
    /\ provider = Str("gitlab.com")
    /\ username = Str("alice")
    /\ projectName = Str("demo")
    /\ projectPath = <<Sep, "go", Sep, "src", Sep, "gitlab.com", Sep, "alice", Sep, "demo">>

\* C8: after a successful run, for an absolute and for a relative base-path,
\* the repository is in the project root: the directory MkdirAll made, which
\* is the working directory the subprocess ran in and which holds main.go
\* with the project name in its greeting.  (Stated for runs whose provider,
\* username and project name are ordinary segments.)
C8_RepoAtProjectRoot ==
    (Exited /\ AllStepsSucceeded
        /\ Ordinary(provider) /\ Ordinary(username) /\ Ordinary(projectName)) =>
        /\ cwd = ProjectRoot
        /\ subprocs = <<ProjectRoot>>
        /\ File(ProjectRoot, "main.go", MainContent(projectName)) \in files
        /\ ProjectRoot \in repos

\* the username the run is to use, from its inputs
ExpectedUsername == IF cmd.username.val # EmptyString THEN cmd.username.val ELSE gitcfg.name
ConfigUnusable == ~gitcfg.loads \/ gitcfg.name = EmptyString

\* C9: a non-empty -username is the username of the path and the git
\* configuration is never read; without it the username is the name of the
\* global configuration, and the run ends with status 1 before any step when
\* the configuration does not load or has no name; the username of a built
\* path is never empty.
C9_Username ==
    /\ cmd.username.val # EmptyString => ~cfgRead
    /\ cfgRead => cmd.username.val = EmptyString /\ pc \notin { "parse", "help", "args", "gopath", "username" }
    /\ (cfgRead /\ ConfigUnusable) =>
          /\ Exited /\ exitCode = <<1>> /\ Untouched
          /\ LastLine.fmt = "Error getting git username: %v"
    /\ (pc = "path" \/ PathBuilt) =>
          /\ username = ExpectedUsername
          /\ username # EmptyString
          /\ cfgRead <=> cmd.username.val = EmptyString
    /\ PathBuilt => projectPath = ProjectPath(gopath, provider, ExpectedUsername, projectName)
C9_Witness ==
    /\ Exited
    /\ AllStepsSucceeded
    /\ cmd.username.val = EmptyString
    /\ cfgRead
    /\ username = Str("alice")

ValidationErrors ==
    { "Error: Project name is required as an argument.",
      "Error: GOPATH is not set.",
      "Error getting git username: %v" }
ErrorsPrinted == SelectSeq(printed, LAMBDA l : l.stream = "stdout")
FirstError == IF ErrorsPrinted = <<>> THEN "" ELSE ErrorsPrinted[1].fmt

\* C10: the validations run in the order help, argument count, base-path,
\* username, and all before the first step: a run ending in a validation
\* failure has touched nothing; the git configuration is read only after the
\* argument count and the base-path passed; of several failing validations
\* the first in that order is the one reported.
C10_ValidationOrder ==
    /\ (\E i \in 1..Len(printed) : printed[i].fmt \in ValidationErrors) =>
          (Exited /\ exitCode = <<1>> /\ Untouched /\ Len(ErrorsPrinted) = 1)
    /\ cfgRead => (ParsedOk /\ ~help /\ Len(cmd.args) = 1 /\ gopath # EmptyString)
    /\ steps # <<>> =>
          (ParsedOk /\ ~help /\ Len(cmd.args) = 1 /\ gopath # EmptyString /\ username # EmptyString)
    /\ (Exited /\ ParsedOk) =>
          IF help THEN ErrorsPrinted = <<>>
          ELSE IF Len(cmd.args) # 1
          THEN FirstError = "Error: Project name is required as an argument."
          ELSE IF gopath = EmptyString
          THEN FirstError = "Error: GOPATH is not set."
          ELSE IF cmd.username.val = EmptyString /\ ConfigUnusable
          THEN FirstError = "Error getting git username: %v"
          ELSE steps # <<>>
C10_Witness ==
    /\ Exited
    /\ ~help
    /\ Len(cmd.args) = 1
    /\ gopath = EmptyString
    /\ cmd.username.val = EmptyString
    /\ ConfigUnusable
    /\ FirstError = "Error: GOPATH is not set."

====
